---- MODULE Spec2Model ----
(***************************************************************************)
(* Model of run.py: a linear job that loads a YAML config, loads a CSV,    *)
(* computes a trailing rolling mean of the "close" column and a binary     *)
(* signal, and reports either a metrics record or an error record.         *)
(*                                                                         *)
(* Numbers: close prices are integers or NaN (a blank CSV cell).  A        *)
(* rolling mean is kept exactly, as the pair sum / nobs that pandas        *)
(* divides; metrics["value"] is kept in units of 1/Scale.  The float       *)
(* rounding error of the division itself is not modelled.                  *)
(***************************************************************************)
EXTENDS Integers, Sequences, FiniteSets, TLC

VARIABLES
    cfgFile,      \* what is found at args.config
    dataFile,     \* what is found at args.input
    stdoutOk,     \* whether a write to standard output succeeds
    pc,           \* position of main()
    config,       \* the local `config` of main()
    df,           \* the data frame: columns, close, rolling_mean, signal
    metrics,      \* the local `metrics` of main()
    exc,          \* the exception caught at line 121
    outFile,      \* content at args.output
    outWrites,    \* what this run wrote at args.output, in order
    stdout,       \* what this run printed, in order
    exitCode,     \* exit status of the process, -1 while it runs
    trail,        \* the values pc went through in this run
    run,          \* number of the current invocation
    prev          \* summary of the previous invocation

vars == <<cfgFile, dataFile, stdoutOk, pc, config, df, metrics, exc, outFile,
          outWrites, stdout, exitCode, trail, run, prev>>

(***************************************************************************)
(* Bounds                                                                  *)
(***************************************************************************)
MaxRows == 2        \* rows of a table in the whole-job specification
MaxClose == 2       \* largest close price in the whole-job specification
MaxWindow == 3      \* largest window in the whole-job specification
MaxSeed == 1        \* largest seed
MaxLatency == 1     \* largest latency_ms
MaxRuns == 2        \* invocations of the job
MaxRowsT == 5       \* rows of a table in the transform specification
MaxCloseT == 5      \* largest close price in the transform specification
MaxWindowT == 3     \* largest window in the transform specification

(***************************************************************************)
(* Values                                                                  *)
(***************************************************************************)
Num(v) == [nan |-> FALSE, v |-> v]
NaN == [nan |-> TRUE, v |-> 0]
None == [kind |-> "none"]

IntVal(n) == [int |-> TRUE, n |-> n]
NonInt == [int |-> FALSE, n |-> 0]          \* a string, float, bool or null

StrVal(s) == [type |-> "str", text |-> s]
DateVal(s) == [type |-> "date", text |-> s] \* YAML timestamp: datetime.date

Msg(text, arg) == [text |-> text, arg |-> arg]
Raise(type, msg) == [ok |-> FALSE, type |-> type, msg |-> msg]
Return(val) == [ok |-> TRUE, val |-> val]

required_keys == <<"seed", "window", "version">>

SeqsUpTo(S, n) == UNION {[1..k -> S] : k \in 0..n}

(***************************************************************************)
(* Inputs                                                                  *)
(***************************************************************************)
ConfigFile(kind, keys, seed, window, version) ==
    [kind |-> kind, keys |-> keys, seed |-> seed, window |-> window,
     version |-> version]

Seeds == -1..MaxSeed
Windows == {IntVal(n) : n \in -1..MaxWindow} \cup {NonInt}
Versions == {StrVal("v1"), StrVal("v2"), DateVal("2024-01-01")}

\* A YAML mapping holds any subset of the three keys (extra keys are ignored).
ConfigFiles ==
    {ConfigFile(k, {}, 0, IntVal(1), StrVal("v1")) :
        k \in {"absent", "malformed", "null"}}
    \cup
    {ConfigFile("map", K,
                IF "seed" \in K THEN s ELSE 0,
                IF "window" \in K THEN w ELSE IntVal(1),
                IF "version" \in K THEN v ELSE StrVal("v1")) :
        K \in SUBSET {"seed", "window", "version"},
        s \in Seeds, w \in Windows, v \in Versions}

DataFile(kind, columns, dtype, nrows, close) ==
    [kind |-> kind, columns |-> columns, dtype |-> dtype, nrows |-> nrows,
     close |-> close]

Prices(maxClose) == {Num(v) : v \in 1..maxClose}
Cells(maxClose) == Prices(maxClose) \cup {NaN}

\* A parsed CSV always has a header, hence at least one column.
Tables(cells, maxRows) ==
    {DataFile("table", {"date", "close"}, "float64", Len(c), c) :
        c \in SeqsUpTo(cells, maxRows)}

DataFiles ==
    {DataFile(k, {}, "none", 0, <<>>) : k \in {"absent", "malformed"}}
    \cup {DataFile("table", {"date"}, "none", n, <<>>) : n \in 0..MaxRows}
    \cup {DataFile("table", {"date", "close"}, "object", n,
                   [i \in 1..n |-> Num(1)]) : n \in 1..MaxRows}
    \cup Tables(Cells(MaxClose), MaxRows)

(***************************************************************************)
(* load_config                                                             *)
(***************************************************************************)
RECURSIVE FirstMissing(_, _)
FirstMissing(keys, i) ==
    IF i > Len(required_keys) THEN ""
    ELSE IF required_keys[i] \notin keys THEN required_keys[i]
    ELSE FirstMissing(keys, i + 1)

load_config(f) ==
    IF f.kind = "absent"
    THEN Raise("FileNotFoundError", Msg("Configuration file not found.", ""))
    ELSE IF f.kind = "malformed"
    THEN Raise("YAMLError", Msg("yaml scan or parse error", ""))
    ELSE IF f.kind = "null"
    THEN Raise("TypeError",
               Msg("argument of type 'NoneType' is not iterable", ""))
    ELSE IF FirstMissing(f.keys, 1) # ""
    THEN Raise("ValueError", Msg("Missing required config field",
                                 FirstMissing(f.keys, 1)))
    ELSE Return(f)

(***************************************************************************)
(* load_data                                                               *)
(***************************************************************************)
\* load_data with the column check ahead of the emptiness check.
load_data_column_first(f) ==
    IF f.kind = "absent"
    THEN Raise("FileNotFoundError", Msg("Input CSV file not found.", ""))
    ELSE IF f.kind = "malformed"
    THEN Raise("ValueError", Msg("Invalid CSV file format.", ""))
    ELSE IF "close" \notin f.columns
    THEN Raise("ValueError", Msg("Required column is missing.", "close"))
    ELSE IF f.nrows = 0
    THEN Raise("ValueError", Msg("Input CSV file is empty.", ""))
    ELSE Return(f)

load_data(f) ==
    IF f.kind = "absent"
    THEN Raise("FileNotFoundError", Msg("Input CSV file not found.", ""))
    ELSE IF f.kind = "malformed"
    THEN Raise("ValueError", Msg("Invalid CSV file format.", ""))
    ELSE IF f.nrows = 0
    THEN Raise("ValueError", Msg("Input CSV file is empty.", ""))
    ELSE IF "close" \notin f.columns
    THEN Raise("ValueError", Msg("Required column is missing.", "close"))
    ELSE Return(f)

(***************************************************************************)
(* np.random.seed                                                          *)
(***************************************************************************)
\* numpy accepts 0 .. 2**32 - 1; the upper end is beyond the seeds drawn here.
np_random_seed(seed) ==
    IF seed < 0
    THEN Raise("ValueError", Msg("Seed must be between 0 and 2**32 - 1", ""))
    ELSE Return(seed)

(***************************************************************************)
(* df["close"].rolling(window=window).mean()                               *)
(***************************************************************************)
Max(a, b) == IF a >= b THEN a ELSE b

\* Window bounds of row i (1-based), half open as pandas keeps them.
WinStart(w, i) == Max(0, i - w)
WinEnd(w, i) == i

RECURSIVE AddRange(_, _, _, _)
AddRange(x, lo, hi, acc) ==
    IF lo > hi THEN acc
    ELSE AddRange(x, lo + 1, hi,
                  IF x[lo].nan THEN acc
                  ELSE [sum |-> acc.sum + x[lo].v, nobs |-> acc.nobs + 1])

RECURSIVE RemoveRange(_, _, _, _)
RemoveRange(x, lo, hi, acc) ==
    IF lo > hi THEN acc
    ELSE RemoveRange(x, lo + 1, hi,
                     IF x[lo].nan THEN acc
                     ELSE [sum |-> acc.sum - x[lo].v, nobs |-> acc.nobs - 1])

\* The running (sum, nobs) after row i: rebuilt when the window does not
\* overlap the previous one, otherwise slid by removing and adding.
RECURSIVE RollAcc(_, _, _)
RollAcc(x, w, i) ==
    IF i = 1 \/ WinStart(w, i) >= WinEnd(w, i - 1)
    THEN AddRange(x, WinStart(w, i) + 1, WinEnd(w, i), [sum |-> 0, nobs |-> 0])
    ELSE AddRange(x, WinEnd(w, i - 1) + 1, WinEnd(w, i),
                  RemoveRange(x, WinStart(w, i - 1) + 1, WinStart(w, i),
                              RollAcc(x, w, i - 1)))

\* calc_mean as with min_periods=1: a partial window has a mean.
calc_mean_partial(minp, acc) ==
    IF acc.nobs > 0
    THEN [def |-> TRUE, sum |-> acc.sum, nobs |-> acc.nobs]
    ELSE [def |-> FALSE, sum |-> 0, nobs |-> 1]

\* min_periods defaults to the window.
calc_mean(minp, acc) ==
    IF acc.nobs >= minp /\ acc.nobs > 0
    THEN [def |-> TRUE, sum |-> acc.sum, nobs |-> acc.nobs]
    ELSE [def |-> FALSE, sum |-> 0, nobs |-> 1]

roll_mean(x, w) == [i \in 1..Len(x) |-> calc_mean(w, RollAcc(x, w, i))]

rolling_mean(table, window) ==
    IF ~window.int \/ window.n < 0
    THEN Raise("ValueError", Msg("window must be an integer 0 or greater", ""))
    ELSE IF table.dtype # "float64"
    THEN Raise("DataError", Msg("No numeric types to aggregate", ""))
    ELSE Return(roll_mean(table.close, window.n))

(***************************************************************************)
(* np.where(df["close"] > df["rolling_mean"], 1, 0)                        *)
(***************************************************************************)
\* A comparison with NaN on either side is False.
Greater(c, m) == ~c.nan /\ m.def /\ c.v * m.nobs > m.sum

signal_of(close, rm) ==
    [i \in 1..Len(close) |-> IF Greater(close[i], rm[i]) THEN 1 ELSE 0]

(***************************************************************************)
(* Metrics                                                                 *)
(***************************************************************************)
Scale == 10000

RECURSIVE SeqSum(_, _)
SeqSum(s, i) == IF i > Len(s) THEN 0 ELSE s[i] + SeqSum(s, i + 1)

\* Truncation to four decimals instead of rounding.
Round4_truncate(num, den) == (num * Scale) \div den

\* round(num / den, 4) in units of 1/Scale, ties to even.
Round4(num, den) ==
    LET q == (num * Scale) \div den
        r == (num * Scale) % den
    IN  IF 2 * r < den THEN q
        ELSE IF 2 * r > den THEN q + 1
        ELSE IF q % 2 = 0 THEN q ELSE q + 1

json_serializable(m) == m.version.type = "str"

success_metrics(version, rows, signal, latency, seed) ==
    [kind |-> "metrics", version |-> version, rows_processed |-> rows,
     metric |-> "signal_rate", value |-> Round4(SeqSum(signal, 1), rows),
     latency_ms |-> latency, seed |-> seed, status |-> "success"]

\* An error record that echoes the version of the loaded config.
error_output_config_version(e) ==
    [kind |-> "error",
     version |-> IF config = None THEN StrVal("v1") ELSE config.version,
     status |-> "error", error_message |-> e.msg]

error_output(e) ==
    [kind |-> "error", version |-> StrVal("v1"), status |-> "error",
     error_message |-> e.msg]

(***************************************************************************)
(* main()                                                                  *)
(***************************************************************************)
Frame(table) == [table |-> table, rolling_mean |-> <<>>, signal |-> <<>>]

Step(to) == pc' = to /\ trail' = Append(trail, to)

\* An exception raised inside the try block at step `at`: control moves to
\* the handler of line 121.
Throw(r, at) ==
    /\ exc' = [type |-> r.type, msg |-> r.msg, at |-> at]
    /\ Step("except")

Fresh ==
    /\ pc = "start"
    /\ config = None
    /\ df = None
    /\ metrics = None
    /\ exc = None
    /\ outWrites = <<>>
    /\ stdout = <<>>
    /\ exitCode = -1
    /\ trail = <<"start">>

Init ==
    /\ cfgFile \in ConfigFiles
    /\ dataFile \in DataFiles
    /\ stdoutOk \in BOOLEAN
    /\ Fresh
    /\ outFile = None
    /\ run = 1
    /\ prev = None

\* line 71
LoadConfig ==
    /\ pc = "start"
    /\ LET r == load_config(cfgFile)
       IN  IF r.ok
           THEN config' = r.val /\ Step("config_loaded") /\ UNCHANGED exc
           ELSE Throw(r, "load_config") /\ UNCHANGED config
    /\ UNCHANGED <<cfgFile, dataFile, stdoutOk, df, metrics, outFile,
                   outWrites, stdout, exitCode, run, prev>>

\* lines 73-79
SetSeed ==
    /\ pc = "config_loaded"
    /\ LET r == np_random_seed(config.seed)
       IN  IF r.ok
           THEN Step("seeded") /\ UNCHANGED exc
           ELSE Throw(r, "seed")
    /\ UNCHANGED <<cfgFile, dataFile, stdoutOk, config, df, metrics, outFile,
                   outWrites, stdout, exitCode, run, prev>>

\* lines 82-83
LoadData ==
    /\ pc = "seeded"
    /\ LET r == load_data(dataFile)
       IN  IF r.ok
           THEN df' = Frame(r.val) /\ Step("data_loaded") /\ UNCHANGED exc
           ELSE Throw(r, "load_data") /\ UNCHANGED df
    /\ UNCHANGED <<cfgFile, dataFile, stdoutOk, config, metrics, outFile,
                   outWrites, stdout, exitCode, run, prev>>

\* lines 86-87
RollingMean ==
    /\ pc = "data_loaded"
    /\ LET r == rolling_mean(df.table, config.window)
       IN  IF r.ok
           THEN /\ df' = [df EXCEPT !.rolling_mean = r.val]
                /\ Step("rolled")
                /\ UNCHANGED exc
           ELSE Throw(r, "transform") /\ UNCHANGED df
    /\ UNCHANGED <<cfgFile, dataFile, stdoutOk, config, metrics, outFile,
                   outWrites, stdout, exitCode, run, prev>>

\* lines 90-91
SignalGen ==
    /\ pc = "rolled"
    /\ df' = [df EXCEPT !.signal = signal_of(df.table.close, df.rolling_mean)]
    /\ Step("signalled")
    /\ UNCHANGED <<cfgFile, dataFile, stdoutOk, config, metrics, exc, outFile,
                   outWrites, stdout, exitCode, run, prev>>

\* lines 94-106; the elapsed time is whatever the clock says
Aggregate ==
    /\ pc = "signalled"
    /\ \E latency \in 0..MaxLatency :
          metrics' = success_metrics(config.version, Len(df.table.close),
                                     df.signal, latency, config.seed)
    /\ Step("aggregated")
    /\ UNCHANGED <<cfgFile, dataFile, stdoutOk, config, df, exc, outFile,
                   outWrites, stdout, exitCode, run, prev>>

\* lines 108-109: open(..., "w") truncates, json.dump streams the fields and
\* raises at the first value it cannot encode
WriteMetrics ==
    /\ pc = "aggregated"
    /\ IF json_serializable(metrics)
       THEN /\ outFile' = metrics
            /\ outWrites' = Append(outWrites, "metrics")
            /\ Step("written")
            /\ UNCHANGED exc
       ELSE /\ outFile' = [kind |-> "partial"]
            /\ outWrites' = Append(outWrites, "partial")
            /\ Throw(Raise("TypeError",
                           Msg("Object of type date is not JSON serializable",
                               "")), "report")
    /\ UNCHANGED <<cfgFile, dataFile, stdoutOk, config, df, metrics, stdout,
                   exitCode, run, prev>>

\* lines 111-117: two log lines, then print
PrintMetrics ==
    /\ pc = "written"
    /\ IF stdoutOk
       THEN /\ stdout' = Append(stdout, metrics)
            /\ Step("printed")
            /\ UNCHANGED exc
       ELSE /\ Throw(Raise("OSError", Msg("write to stdout failed", "")),
                     "report")
            /\ UNCHANGED stdout
    /\ UNCHANGED <<cfgFile, dataFile, stdoutOk, config, df, metrics, outFile,
                   outWrites, exitCode, run, prev>>

\* line 119: SystemExit is not an Exception, the handler does not catch it
ExitSuccess ==
    /\ pc = "printed"
    /\ exitCode' = 0
    /\ Step("exit0")
    /\ UNCHANGED <<cfgFile, dataFile, stdoutOk, config, df, metrics, exc,
                   outFile, outWrites, stdout, run, prev>>

\* lines 121-129
HandleError ==
    /\ pc = "except"
    /\ outFile' = error_output(exc)
    /\ outWrites' = Append(outWrites, "error")
    /\ Step("err_written")
    /\ UNCHANGED <<cfgFile, dataFile, stdoutOk, config, df, metrics, exc,
                   stdout, exitCode, run, prev>>

\* lines 131-133: an exception here is uncaught, the interpreter exits 1
PrintError ==
    /\ pc = "err_written"
    /\ IF stdoutOk
       THEN /\ stdout' = Append(stdout, error_output(exc))
            /\ Step("err_printed")
            /\ UNCHANGED exitCode
       ELSE /\ exitCode' = 1
            /\ Step("crashed")
            /\ UNCHANGED stdout
    /\ UNCHANGED <<cfgFile, dataFile, stdoutOk, config, df, metrics, exc,
                   outFile, outWrites, run, prev>>

\* line 135
ExitFailure ==
    /\ pc = "err_printed"
    /\ exitCode' = 1
    /\ Step("exit1")
    /\ UNCHANGED <<cfgFile, dataFile, stdoutOk, config, df, metrics, exc,
                   outFile, outWrites, stdout, run, prev>>

Terminated == pc \in {"exit0", "exit1", "crashed"}

\* What an invocation leaves behind for whoever compares two invocations.
Summary ==
    [cfg |-> cfgFile, pc |-> pc, exitCode |-> exitCode, outFile |-> outFile,
     outWrites |-> outWrites, stdout |-> stdout]

\* lines 139-140: the job is invoked again on the same paths; in between,
\* the seed in the config file may have been edited.  The output file of
\* the previous invocation is still on disk.
Rerun ==
    /\ Terminated
    /\ run < MaxRuns
    /\ \E s \in Seeds :
          cfgFile' = IF cfgFile.kind = "map" /\ "seed" \in cfgFile.keys
                     THEN [cfgFile EXCEPT !.seed = s]
                     ELSE cfgFile
    /\ prev' = Summary
    /\ run' = run + 1
    /\ pc' = "start"
    /\ config' = None
    /\ df' = None
    /\ metrics' = None
    /\ exc' = None
    /\ outWrites' = <<>>
    /\ stdout' = <<>>
    /\ exitCode' = -1
    /\ trail' = <<"start">>
    /\ UNCHANGED <<dataFile, stdoutOk, outFile>>

Next ==
    \/ LoadConfig
    \/ SetSeed
    \/ LoadData
    \/ RollingMean
    \/ SignalGen
    \/ Aggregate
    \/ WriteMetrics
    \/ PrintMetrics
    \/ ExitSuccess
    \/ HandleError
    \/ PrintError
    \/ ExitFailure
    \/ Rerun

Spec == Init /\ [][Next]_vars

(***************************************************************************)
(* The transform and the aggregation alone: the state main() is in after   *)
(* line 83 with a valid config and a numeric table.  The tables are the    *)
(* small ones of the whole job, blank cells included, under any window     *)
(* from 0, and larger ones without blank cells under the two largest       *)
(* windows.                                                                *)
(***************************************************************************)
InitT ==
    /\ \E w \in 0..MaxWindowT :
          \E t \in Tables(Cells(MaxClose), MaxRows)
                    \cup Tables(Prices(MaxCloseT), MaxRowsT) :
             /\ w < MaxWindowT - 1 => t \in Tables(Cells(MaxClose), MaxRows)
             /\ t.nrows > 0
             /\ cfgFile = ConfigFile("map", {"seed", "window", "version"}, 0,
                                     IntVal(w), StrVal("v1"))
             /\ dataFile = t
    /\ stdoutOk = TRUE
    /\ pc = "data_loaded"
    /\ config = cfgFile
    /\ df = Frame(dataFile)
    /\ metrics = None
    /\ exc = None
    /\ outFile = None
    /\ outWrites = <<>>
    /\ stdout = <<>>
    /\ exitCode = -1
    /\ trail = <<"start", "config_loaded", "seeded", "data_loaded">>
    /\ run = 1
    /\ prev = None

NextT ==
    \/ RollingMean
    \/ SignalGen
    \/ Aggregate

SpecT == InitT /\ [][NextT]_vars

(***************************************************************************)
(* Vocabulary of the properties                                            *)
(***************************************************************************)
\* The job lifecycle of the design: the transform is complete once the
\* signal exists, the metrics are emitted once they are in the output file.
Lifecycle ==
    CASE pc = "start" -> "Start"
      [] pc \in {"config_loaded", "seeded"} -> "ConfigLoaded"
      [] pc \in {"data_loaded", "rolled"} -> "DataLoaded"
      [] pc \in {"signalled", "aggregated"} -> "Transformed"
      [] pc \in {"written", "printed", "exit0"} -> "MetricsEmitted"
      [] OTHER -> "Failed"

Visited(p) == \E i \in 1..Len(trail) : trail[i] = p
Left(p) == \E i \in 1..(Len(trail) - 1) : trail[i] = p
Range(s) == {s[i] : i \in 1..Len(s)}

AllKeys(f) == f.kind = "map" /\ f.keys = {"seed", "window", "version"}
ValidConfig(f) ==
    AllKeys(f) /\ f.window.int /\ f.window.n >= 1 /\ f.version.type = "str"
HasRows(f) == f.kind = "table" /\ f.nrows > 0
HasClose(f) == f.kind = "table" /\ "close" \in f.columns

\* Sum and missing values of close[lo..hi], straight from the definition.
RECURSIVE DirectSum(_, _, _)
DirectSum(x, lo, hi) ==
    IF lo > hi THEN 0
    ELSE (IF x[hi].nan THEN 0 ELSE x[hi].v) + DirectSum(x, lo, hi - 1)
AnyMissing(x, lo, hi) == \E j \in lo..hi : x[j].nan

\* Row i (1-based) has a full window of w present values ending at it.
FullWindow(x, w, i) == i >= w /\ ~AnyMissing(x, i - w + 1, i)
Above(x, w, i) ==
    FullWindow(x, w, i) /\ x[i].v * w > DirectSum(x, i - w + 1, i)

Example == <<Num(1), Num(2), Num(3), Num(4), Num(5)>>

(***************************************************************************)
(* C1                                                                      *)
(***************************************************************************)
\* The version in the config file, if any, is a string as the data model
\* of the design requires.
StringVersion == cfgFile.version.type = "str"

\* C1: in every run (here: on a config whose version is a string) the
\* output path is written at most once, exactly once by the time the run
\* has ended, and never with both a metrics record and an error record.
C1_WrittenOnce ==
    StringVersion =>
        /\ Len(outWrites) <= 1
        /\ Terminated => Len(outWrites) = 1
        /\ ~({"metrics", "error"} \subseteq Range(outWrites))

(***************************************************************************)
(* C2                                                                      *)
(***************************************************************************)
StepFailed == exc # None /\ exc.at # "report"

\* C2: a terminated run (here: on a config whose version is a string) in
\* which config load, data load, transform or aggregation failed left the
\* error record in the output file and as the only thing on stdout and
\* exited 1; any other terminated run left the metrics record with status
\* "success" in both and exited 0.
C2_ShapeAgreesWithExit ==
    (Terminated /\ StringVersion) =>
        IF StepFailed
        THEN /\ outFile = error_output(exc)
             /\ \A i \in 1..Len(stdout) : stdout[i] = error_output(exc)
             /\ exitCode = 1
        ELSE /\ outFile = metrics
             /\ metrics.status = "success"
             /\ \A i \in 1..Len(stdout) : stdout[i] = metrics
             /\ exitCode = 0

(***************************************************************************)
(* C3                                                                      *)
(***************************************************************************)
\* C3: for window w >= 1, once the signal exists, the rolling mean of row i
\* is undefined when fewer than w rows end at i, is the arithmetic mean of
\* the w closes ending at i otherwise (undefined when one of them is
\* missing), and signal[i] is 1 exactly when the mean is defined and the
\* close exceeds it, 0 in every other case.
C3_Transform ==
    (pc \in {"signalled", "aggregated"} /\ config.window.n >= 1) =>
        LET x == df.table.close
            w == config.window.n
            rm == df.rolling_mean
            sg == df.signal
        IN  /\ Len(rm) = Len(x)
            /\ Len(sg) = Len(x)
            /\ \A i \in 1..Len(x) :
                  /\ i < w => ~rm[i].def
                  /\ rm[i].def <=> FullWindow(x, w, i)
                  /\ rm[i].def =>
                        rm[i].sum * w = DirectSum(x, i - w + 1, i) * rm[i].nobs
                  /\ sg[i] \in {0, 1}
                  /\ sg[i] = 1 <=> Above(x, w, i)

\* The example of the design: close 1..5 with window 3.
C3_Witness ==
    /\ pc = "signalled"
    /\ df.table.close = Example
    /\ config.window.n = 3
    /\ ~df.rolling_mean[1].def /\ ~df.rolling_mean[2].def
    /\ df.rolling_mean[5].def
    /\ df.signal = <<0, 0, 1, 1, 1>>

(***************************************************************************)
(* C4                                                                      *)
(***************************************************************************)
SignalCount(x, w) == Cardinality({i \in 1..Len(x) : w >= 1 /\ Above(x, w, i)})

\* C4 as stated: the reported value lies in [0, 1] and is exactly the number
\* of rows above their rolling mean divided by the number of input rows.
C4_ExactFraction ==
    pc = "aggregated" =>
        /\ metrics.value >= 0 /\ metrics.value <= Scale
        /\ metrics.value * dataFile.nrows
              = SignalCount(df.table.close, config.window.n) * Scale

\* C4 amended: the reported value lies in [0, 1] and is that fraction, over
\* all input rows, rounded to the nearest multiple of 1/10000.
C4_RoundedFraction ==
    pc = "aggregated" =>
        LET n == dataFile.nrows
            k == SignalCount(df.table.close, config.window.n)
            d == metrics.value * n - k * Scale
        IN  /\ metrics.value >= 0 /\ metrics.value <= Scale
            /\ 2 * d <= n /\ 2 * d >= -n

C4_Witness ==
    /\ pc = "aggregated"
    /\ df.table.close = Example
    /\ config.window.n = 3
    /\ metrics.value = 6000
    /\ metrics.rows_processed = 5

(***************************************************************************)
(* C5                                                                      *)
(***************************************************************************)
\* C5: a run on a valid config (integer seed, positive integer window,
\* string version) and a non-empty table with a "close" column (here: a
\* numeric one, with a writable stdout) ends in the success record, whose
\* rows_processed is the row count of the input.
C5_RowsProcessed ==
    (Terminated /\ ValidConfig(cfgFile) /\ HasRows(dataFile)
        /\ HasClose(dataFile) /\ dataFile.dtype = "float64" /\ stdoutOk) =>
        /\ pc = "exit0"
        /\ outFile.kind = "metrics"
        /\ outFile.status = "success"
        /\ outFile.rows_processed = dataFile.nrows

(***************************************************************************)
(* C6                                                                      *)
(***************************************************************************)
Failing == pc \in {"err_written", "err_printed", "exit1", "crashed"}

\* C6: in a failing run the error record has exactly the fields version,
\* status and error_message, and its version is the literal "v1" whatever
\* version the config holds; what is printed is that same record.
C6_ErrorVersionLiteral ==
    Failing =>
        /\ DOMAIN outFile = {"kind", "version", "status", "error_message"}
        /\ outFile.kind = "error"
        /\ outFile.version = StrVal("v1")
        /\ outFile.status = "error"
        /\ outFile.error_message = exc.msg
        /\ \A i \in 1..Len(stdout) : stdout[i] = outFile

C6_Witness ==
    /\ pc = "exit1"
    /\ config # None
    /\ config.version = StrVal("v2")
    /\ exc.at = "transform"
    /\ outFile.version = StrVal("v1")

(***************************************************************************)
(* C7                                                                      *)
(***************************************************************************)
LifecycleEdges ==
    {<<"Start", "ConfigLoaded">>, <<"ConfigLoaded", "DataLoaded">>,
     <<"DataLoaded", "Transformed">>, <<"Transformed", "MetricsEmitted">>}
    \cup {<<s, "Failed">> :
             s \in {"Start", "ConfigLoaded", "DataLoaded", "Transformed"}}

\* C7: within a run the lifecycle moves only along Start -> ConfigLoaded ->
\* DataLoaded -> Transformed -> MetricsEmitted, or from a non-terminal state
\* to Failed; MetricsEmitted and Failed are left by no step.
C7_Lifecycle ==
    [][(run' = run /\ StringVersion) =>
          \/ Lifecycle' = Lifecycle
          \/ <<Lifecycle, Lifecycle'>> \in LifecycleEdges]_vars

(***************************************************************************)
(* C8                                                                      *)
(***************************************************************************)
MissingClose == Msg("Required column is missing.", "close")

\* C8 as stated: once load_data has run, every table without a "close"
\* column, a header-only table included, ends in the error record that
\* names the missing column, with exit code 1.
C8_MissingColumnAlways ==
    (Terminated /\ Left("seeded") /\ dataFile.kind = "table"
        /\ ~HasClose(dataFile)) =>
        /\ outFile.kind = "error"
        /\ outFile.error_message = MissingClose
        /\ exitCode = 1

\* C8 amended: once load_data has run, a missing path gave the not-found
\* error, an unparsable file the parse error, a table with zero rows the
\* empty-input error whether or not it has a "close" column, and a table
\* with at least one row and no "close" column the missing-column error
\* naming "close"; the run then ends in the error record carrying that
\* message, with exit code 1.
C8_LoadDataErrors ==
    LET expected ==
            CASE dataFile.kind = "absent" ->
                     Msg("Input CSV file not found.", "")
              [] dataFile.kind = "malformed" ->
                     Msg("Invalid CSV file format.", "")
              [] dataFile.kind = "table" /\ dataFile.nrows = 0 ->
                     Msg("Input CSV file is empty.", "")
              [] OTHER -> MissingClose
        malformedInput == ~(HasRows(dataFile) /\ HasClose(dataFile))
    IN  Left("seeded") =>
           /\ malformedInput <=> (exc # None /\ exc.at = "load_data")
           /\ malformedInput =>
                 /\ exc.msg = expected
                 /\ Terminated =>
                       /\ outFile = error_output(exc)
                       /\ outFile.error_message = expected
                       /\ exitCode = 1

C8_Witness ==
    /\ Terminated
    /\ HasRows(dataFile)
    /\ ~HasClose(dataFile)
    /\ outFile.kind = "error"
    /\ outFile.error_message = MissingClose
    /\ exitCode = 1

(***************************************************************************)
(* C9                                                                      *)
(***************************************************************************)
Parsed(f) == f.kind \in {"null", "map"}
BadWindow(f) == ~f.window.int \/ f.window.n < 0

\* C9: once load_config has run on a parsed config, it raised the error
\* that reports a missing required field exactly when one of the three keys
\* is absent; with all keys present it returned, and a run whose window is
\* negative or not an integer, on loadable data, then fails at the
\* transform, having passed through ConfigLoaded and DataLoaded.
C9_ValidationOnlyOnMissingKey ==
    /\ (Left("start") /\ Parsed(cfgFile)) =>
          (~AllKeys(cfgFile) <=>
              /\ exc # None
              /\ exc.at = "load_config"
              /\ exc.msg.text = "Missing required config field")
    /\ (Terminated /\ AllKeys(cfgFile) /\ BadWindow(cfgFile)
           /\ HasRows(dataFile) /\ HasClose(dataFile)) =>
          /\ Visited("config_loaded")
          /\ Visited("data_loaded")
          /\ exc # None
          /\ exc.at = "transform"

(***************************************************************************)
(* C10                                                                     *)
(***************************************************************************)
ResultOf(out) ==
    IF out.kind = "metrics"
    THEN <<out.status, out.rows_processed, out.value>>
    ELSE <<out.kind>>

\* C10: two terminated runs on the same inputs whose configs differ at most
\* in the integer seed end at the same place with the same exit code and
\* the same status, rows_processed and value.
C10_SeedIrrelevant ==
    (run = 2 /\ Terminated /\ ValidConfig(cfgFile) /\ stdoutOk) =>
        /\ prev.pc = pc
        /\ prev.exitCode = exitCode
        /\ ResultOf(prev.outFile) = ResultOf(outFile)

====
